---- MODULE Spec2Model ----
(***************************************************************************)
(* AWSSecurityLens: the scan orchestrator (SecurityScanner), the probes    *)
(* it fans out to, and the SQLite-backed DatabaseService, as a state       *)
(* machine.  Every `await` of the TypeScript source is a step boundary:    *)
(* the handlers of one Node process interleave exactly there, and they all *)
(* share the single connection `this.db` of DatabaseService.               *)
(***************************************************************************)
EXTENDS Integers, Sequences, FiniteSets, TLC

(***************************************************************************)
(* Bounds of the model.                                                    *)
(***************************************************************************)
\* accounts in the store when the model starts
MaxAccounts == 3
\* region rows of the first account (account a has a-1 of them disabled)
MaxRegions == 2
\* probe calls of one scanAccount that the environment lets add no finding
MaxQuietProbes == 1

(***************************************************************************)
(* Values.                                                                 *)
(***************************************************************************)
\* the probes in the order of the Promise.all array literal
Probes == <<"IAM", "CloudTrail", "CloudWatch", "KMS", "GuardDuty", "SecurityHub">>

ProbeSet == {Probes[i] : i \in 1..Len(Probes)}


RegionCodes == <<"us-east-1", "us-west-2", "eu-west-1", "ap-south-1">>

Severities == {"HIGH", "MEDIUM", "LOW"}

NoStatus == 0

NoError == [isError |-> FALSE, name |-> "none", status |-> NoStatus, msg |-> {}]

\* new Error(message): a plain Error carries no $metadata and the name "Error"
PlainError(msg) == [isError |-> TRUE, name |-> "Error", status |-> NoStatus, msg |-> msg]

\* What an AWS SDK call or a client constructor may throw.  A message is the
\* set of the words it contains: String.includes(w) is membership.
AwsErrors ==
    { [isError |-> TRUE, name |-> "UnrecognizedClientException", status |-> 403,
       msg |-> {"security", "token", "invalid"}],
      [isError |-> TRUE, name |-> "AccessDeniedException", status |-> 403,
       msg |-> {"AccessDenied"}],
      [isError |-> TRUE, name |-> "CredentialsProviderError", status |-> NoStatus,
       msg |-> {"Could", "not", "load", "credentials"}],
      [isError |-> TRUE, name |-> "Error", status |-> NoStatus,
       msg |-> {"AccessDenied"}],
      [isError |-> TRUE, name |-> "ThrottlingException", status |-> 400,
       msg |-> {"Rate", "exceeded"}],
      [isError |-> FALSE, name |-> "none", status |-> 403,
       msg |-> {}] }

\* How the AWS side answers one probe invocation: the service is not set up
\* (the probe's "not enabled / none configured" rule fires), it is set up and
\* clean, the client constructor throws, or an API call throws.
AwsResponses ==
    { [kind |-> k, error |-> NoError] : k \in {"nominal", "clean", "ctorThrows"} }
    \cup { [kind |-> "callThrows", error |-> e] : e \in AwsErrors }

\* The finding each probe pushes when its service is not set up in the region.
AbsenceSeverity(p) ==
    CASE p = "IAM" -> "HIGH"
      [] p = "CloudTrail" -> "HIGH"
      [] p = "CloudWatch" -> "MEDIUM"
      [] p = "KMS" -> "LOW"
      [] p = "GuardDuty" -> "HIGH"
      [] p = "SecurityHub" -> "HIGH"

AbsenceFinding(p) ==
    [service |-> p, severity |-> AbsenceSeverity(p), resourceId |-> "account"]

Returned(list) == [ok |-> TRUE, findings |-> list, error |-> NoError]

Thrown(e) == [ok |-> FALSE, findings |-> <<>>, error |-> e]

(***************************************************************************)
(* The probes.  scan(account, region) as a function of the account's       *)
(* credentials and of the AWS answer.                                      *)
(***************************************************************************)
\* IAM, CloudTrail, CloudWatch, KMS and SecurityHub: the client is built
\* outside the try block, every API call inside it.
\* String.prototype.toUpperCase on the severity labels in use.
ToUpperCase(label) ==
    CASE label = "critical" -> "CRITICAL"
      [] label = "Medium" -> "MEDIUM"
      [] OTHER -> label

\* A mapping that hands the upper-cased label through.
mapSeverityVerbatim(label) == ToUpperCase(label)

\* SecurityHubScanner.mapSeverity: the switch with its default branch.
mapSeverity(label) ==
    CASE ToUpperCase(label) \in {"CRITICAL", "HIGH"} -> "HIGH"
      [] ToUpperCase(label) = "MEDIUM" -> "MEDIUM"
      [] OTHER -> "LOW"

\* The ternary of GuardDutyScanner.scan on finding.Severity; 0 stands for
\* every falsy score (0 and undefined).
GuardDutySeverity(score) ==
    IF score # 0 /\ score >= 7 THEN "HIGH"
    ELSE IF score # 0 /\ score >= 4 THEN "MEDIUM"
    ELSE "LOW"

\* The severity a probe gives to a finding it reports about a resource:
\* mapped from AWS's answer by SecurityHub and GuardDuty, a literal in the
\* other probes.
ReportedSeverity(p, aws) ==
    CASE p = "SecurityHub" -> mapSeverity(aws.label)
      [] p = "GuardDuty" -> GuardDutySeverity(aws.score)
      [] p = "IAM" -> "MEDIUM"
      [] p = "CloudTrail" -> "MEDIUM"
      [] p = "CloudWatch" -> "LOW"
      [] p = "KMS" -> "HIGH"

ReportedFinding(p, aws) ==
    [service |-> p, severity |-> ReportedSeverity(p, aws), resourceId |-> "resource"]

\* What a probe has pushed when a call after its first one fails: IAM the
\* root-MFA finding before ListUsers, CloudTrail and KMS the findings of
\* the first trail or key before the status call of the second one;
\* CloudWatch makes one call only, and SecurityHub pushes nothing before
\* GetFindings has answered.
CollectedBefore(p) ==
    CASE p = "IAM" -> <<AbsenceFinding("IAM")>>
      [] p = "CloudTrail" -> <<[service |-> p, severity |-> "HIGH", resourceId |-> "resource"]>>
      [] p = "KMS" -> <<[service |-> p, severity |-> "MEDIUM", resourceId |-> "resource"]>>
      [] OTHER -> <<>>

\* The error names by which SecurityHub recognises that it is not enabled.
NotEnabledNames == {"InvalidAccessException", "ResourceNotFoundException"}

\* A probe whose catch rethrows what it caught.
CaughtProbeScanRethrows(p, aws) ==
    CASE aws.kind = "ctorThrows" -> Thrown(PlainError({"Invalid", "configuration"}))
      [] aws.kind = "callThrows" -> Thrown(aws.error)
      [] aws.kind = "lateThrows" -> Thrown(aws.error)
      [] aws.kind = "clean" -> Returned(<<>>)
      [] aws.kind = "nominal" -> Returned(<<AbsenceFinding(p)>>)
      [] aws.kind = "reported" -> Returned(<<ReportedFinding(p, aws)>>)

CaughtProbeScan(p, aws) ==
    CASE aws.kind = "ctorThrows" -> Thrown(PlainError({"Invalid", "configuration"}))
      [] aws.kind = "callThrows" ->
            IF p = "SecurityHub" /\ aws.error.name \in NotEnabledNames
            THEN Returned(<<AbsenceFinding(p)>>)
            ELSE Returned(<<>>)
      [] aws.kind = "lateThrows" -> Returned(CollectedBefore(p))
      [] aws.kind = "clean" -> Returned(<<>>)
      [] aws.kind = "nominal" -> Returned(<<AbsenceFinding(p)>>)
      [] aws.kind = "reported" -> Returned(<<ReportedFinding(p, aws)>>)

\* The catch block of GuardDutyScanner.scan.
GuardDutyRethrow(e) ==
    IF e.isError
    THEN IF e.name = "UnrecognizedClientException" \/ e.status = 403
         THEN e
         ELSE IF "credentials" \in e.msg
              THEN PlainError({"AWS", "credentials", "error"} \cup e.msg)
              ELSE IF "AccessDenied" \in e.msg
                   THEN PlainError({"Access", "denied", "to", "GuardDuty", "IAM", "permissions"})
                   ELSE e
    ELSE e

\* A GuardDuty probe with the catch of the other probes: log and return.
GuardDutyScanSwallows(account, aws) ==
    IF ~account.keys
    THEN Thrown(PlainError({"Missing", "AWS", "credentials"}))
    ELSE CASE aws.kind = "ctorThrows" -> Thrown(PlainError({"Invalid", "configuration"}))
           [] aws.kind = "callThrows" -> Returned(<<>>)
           [] aws.kind = "lateThrows" -> Returned(<<>>)
           [] aws.kind = "clean" -> Returned(<<>>)
           [] aws.kind = "nominal" -> Returned(<<AbsenceFinding("GuardDuty")>>)
           [] aws.kind = "reported" -> Returned(<<ReportedFinding("GuardDuty", aws)>>)

GuardDutyScan(account, aws) ==
    IF ~account.keys
    THEN Thrown(PlainError({"Missing", "AWS", "credentials"}))
    ELSE CASE aws.kind = "ctorThrows" -> Thrown(PlainError({"Invalid", "configuration"}))
           [] aws.kind = "callThrows" -> Thrown(GuardDutyRethrow(aws.error))
           [] aws.kind = "lateThrows" -> Thrown(GuardDutyRethrow(aws.error))
           [] aws.kind = "clean" -> Returned(<<>>)
           [] aws.kind = "nominal" -> Returned(<<AbsenceFinding("GuardDuty")>>)
           [] aws.kind = "reported" -> Returned(<<ReportedFinding("GuardDuty", aws)>>)

ProbeScan(p, account, aws) ==
    IF p = "GuardDuty" THEN GuardDutyScan(account, aws) ELSE CaughtProbeScan(p, aws)

\* The test of the canary's catch block in scanAccount.
IsInvalidCredentials(e) ==
    e.name = "UnrecognizedClientException" \/ e.status = 403

\* .catch(e => { logger.error(...); return []; }) on each member of the fan-out
CatchToEmpty(outcome) == IF outcome.ok THEN outcome.findings ELSE <<>>

(***************************************************************************)
(* The store: the three tables and sqlite_sequence, as the one connection  *)
(* sees them.                                                              *)
(***************************************************************************)
EmptyDb ==
    [accounts |-> {}, regions |-> {}, findings |-> {},
     seq |-> [accounts |-> 0, regions |-> 0, findings |-> 0]]

\* INSERT INTO aws_accounts
InsertAccount(d, keys) ==
    LET id == d.seq.accounts + 1
    IN  [d EXCEPT !.accounts = @ \cup {[id |-> id, keys |-> keys]},
                  !.seq.accounts = id]

\* INSERT INTO aws_regions: the table of DatabaseService.initialize has no
\* UNIQUE(account_id, region), and foreign keys are never switched on.
InsertRegion(d, accountId, region, enabled) ==
    LET id == d.seq.regions + 1
    IN  [d EXCEPT !.regions = @ \cup {[id |-> id, accountId |-> accountId,
                                       region |-> region, enabled |-> enabled]},
                  !.seq.regions = id]

\* An INSERT OR REPLACE keyed on (account, region, service, severity).
UpsertFinding(d, accountId, f) ==
    LET id == d.seq.findings + 1
        same(x) == /\ x.accountId = accountId /\ x.region = f.region
                   /\ x.service = f.service /\ x.severity = f.severity
    IN  [d EXCEPT !.findings = {x \in @ : ~same(x)}
                                  \cup {[id |-> id, accountId |-> accountId,
                                         region |-> f.region, service |-> f.service,
                                         severity |-> f.severity,
                                         live |-> \E a \in d.accounts : a.id = accountId]},
                  !.seq.findings = id]

\* The INSERT of storeFindingsForAccount / addFinding.  `live` is history:
\* whether the account row existed when the finding was written.
InsertFinding(d, accountId, f) ==
    LET id == d.seq.findings + 1
    IN  [d EXCEPT !.findings = @ \cup {[id |-> id, accountId |-> accountId,
                                        region |-> f.region, service |-> f.service,
                                        severity |-> f.severity,
                                        live |-> \E a \in d.accounts : a.id = accountId]},
                  !.seq.findings = id]

RECURSIVE SortById(_)
SortById(rows) ==
    IF rows = {} THEN <<>>
    ELSE LET first == CHOOSE x \in rows : \A y \in rows : x.id <= y.id
         IN  <<first>> \o SortById(rows \ {first})

getAccounts(d) == SortById(d.accounts)

getAccount(d, id) == {a \in d.accounts : a.id = id}

\* A region lookup without its `enabled = 1` filter.
getAllRegions(d, accountId) == SortById({r \in d.regions : r.accountId = accountId})

getEnabledRegions(d, accountId) ==
    SortById({r \in d.regions : r.accountId = accountId /\ r.enabled})

FindingsOf(d, accountId) == {f \in d.findings : f.accountId = accountId}

RECURSIVE SeedRegions(_, _, _, _)
SeedRegions(d, accountId, i, enabledCount) ==
    IF i > MaxRegions THEN d
    ELSE SeedRegions(InsertRegion(d, accountId, RegionCodes[i], i <= enabledCount),
                     accountId, i + 1, enabledCount)

RECURSIVE SeedAccounts(_, _)
SeedAccounts(d, a) ==
    IF a > MaxAccounts THEN d
    ELSE SeedAccounts(
             SeedRegions(InsertAccount(d, a # 2), a, 1,
                         IF MaxRegions + 1 > a THEN MaxRegions + 1 - a ELSE 0),
             a + 1)

\* The store the model starts from: account a has MaxRegions region rows, the
\* first MaxRegions+1-a of them enabled; account 2 has empty access keys.
SeededDb == SeedAccounts(EmptyDb, 1)

(***************************************************************************)
(* State.                                                                  *)
(***************************************************************************)
VARIABLES
    db,      \* the tables as the connection sees them
    txn,     \* the tables at BEGIN TRANSACTION, or NoTxn
    scan,    \* the running scanAccount call
    batch,   \* the running scanAllAccounts call
    del,     \* the running deleteAccount call
    probe,   \* one call of a probe's scan(), on its own
    stats,   \* the running getFindingStats call
    store    \* the dashboard's security store

vars == <<db, txn, scan, batch, del, probe, stats, store>>

NoTxn == [active |-> FALSE]

IdleScan ==
    [pc |-> "idle", caller |-> "none", accountId |-> 0, account |-> {},
     regions |-> <<>>, r |-> 1,
     pending |-> {}, outcome |-> [p \in ProbeSet |-> [ok |-> TRUE, findings |-> <<>>]],
     allFindings |-> <<>>, k |-> 1, error |-> NoError,
     \* history, read by the properties only
     invoked |-> {}, writes |-> 0, before |-> {}, regionFindings |-> <<>>, quiet |-> 0,
     canary |-> Returned(<<>>),
     \* the route's answer (HTTP status), and the scans a client has requested
     http |-> NoStatus, n |-> 0]

IdleBatch ==
    [pc |-> "idle", accounts |-> <<>>, i |-> 1, allFindings |-> <<>>, error |-> NoError,
     \* history: whether getAccounts returned, and how each scanAccount call ended
     listed |-> FALSE, calls |-> <<>>]

IdleDel ==
    [pc |-> "idle", id |-> 0, error |-> NoError,
     \* history: the tables when BEGIN was issued and when the call ended
     before |-> EmptyDb, after |-> EmptyDb, at |-> "none"]

\* No probe called on its own.
IdleProbe ==
    [pc |-> "idle", p |-> "none", keys |-> TRUE,
     aws |-> [kind |-> "nominal", error |-> NoError, label |-> "none", score |-> 0],
     outcome |-> Returned(<<>>),
     \* the severity handed to addFinding and what became of the write
     severity |-> "none", write |-> "none"]

\* No getFindingStats call running.
IdleStats ==
    [pc |-> "idle", accountId |-> 0, pending |-> {},
     bySeverity |-> [s \in Severities |-> 0], byService |-> [p \in ProbeSet |-> 0],
     totalFindings |-> 0]

\* state() of useSecurityStore, and where each of its running actions is.
IdleStore ==
    [loading |-> FALSE, error |-> FALSE, selectedAccountId |-> 0,
     \* this.accounts.length
     accounts |-> 0,
     \* the request each running action is waiting for
     fetchFindings |-> "idle", fetchStats |-> "idle",
     triggerScan |-> "idle", addAccount |-> "idle",
     \* account.regions.length of the running addAccount, and the
     \* iterations left in the loop it is in
     regions |-> 0, left |-> 0]

Init ==
    /\ db = SeededDb
    /\ txn = NoTxn
    /\ scan = IdleScan
    /\ batch = IdleBatch
    /\ del = IdleDel
    /\ probe = IdleProbe
    /\ stats = IdleStats
    /\ store = IdleStore


(***************************************************************************)
(* SecurityScanner.scanAccount, one action per await.                      *)
(***************************************************************************)
\* What a failing statement of the sqlite driver rejects with.
DbError == PlainError({"SQLITE_ERROR"})

ScanFail(e) == [scan EXCEPT !.pc = "failed", !.error = e]

\* scanAccount(accountId) is called.
ScanEnter(id, caller) ==
    [IdleScan EXCEPT !.pc = "getAccount", !.caller = caller, !.accountId = id,
                     !.before = db.findings]

\* throw new Error(`Account ${accountId} not found`)
AccountNotFound == PlainError({"Account", "not", "found"})

\* A lookup whose result is not tested before it is used.
ScanGetAccountUnchecked(ok) ==
    /\ scan.pc = "getAccount"
    /\ scan' = IF ~ok THEN ScanFail(DbError)
               ELSE [scan EXCEPT !.pc = "getEnabledRegions",
                                 !.account = getAccount(db, scan.accountId)]
    /\ UNCHANGED <<db, txn, batch, del, probe, stats, store>>

\* const account = await this.dbService.getAccount(accountId); if (!account) throw
ScanGetAccount(ok) ==
    /\ scan.pc = "getAccount"
    /\ scan' = IF ~ok THEN ScanFail(DbError)
               ELSE IF getAccount(db, scan.accountId) = {}
                    THEN ScanFail(AccountNotFound)
                    ELSE [scan EXCEPT !.pc = "getEnabledRegions",
                                      !.account = getAccount(db, scan.accountId)]
    /\ UNCHANGED <<db, txn, batch, del, probe, stats, store>>

\* The for loop's test: the next region, or the bulk write after the last.
AfterRegion(regions, r) == IF r <= Len(regions) THEN "canary" ELSE "store"

\* const enabledRegions = await this.dbService.getEnabledRegions(accountId);
ScanGetEnabledRegions(ok) ==
    /\ scan.pc = "getEnabledRegions"
    /\ scan' = IF ~ok THEN ScanFail(DbError)
               ELSE LET regions == getEnabledRegions(db, scan.accountId)
                    IN  [scan EXCEPT !.regions = regions, !.r = 1,
                                     !.pc = AfterRegion(regions, 1)]
    /\ UNCHANGED <<db, txn, batch, del, probe, stats, store>>

TheAccount == CHOOSE a \in scan.account : TRUE

Invocation(r, p, role) == [r |-> r, probe |-> p, role |-> role]

\* A loop body that starts the fan-out together with the canary.
CanaryInvokeWithFanout ==
    /\ scan.pc = "canary"
    /\ scan' = [scan EXCEPT !.pc = "canaryWait",
                            !.outcome = IdleScan.outcome,
                            !.regionFindings = <<>>,
                            !.invoked = @ \cup {Invocation(scan.r, "GuardDuty", "canary")}
                                          \cup {Invocation(scan.r, p, "fanout") : p \in ProbeSet}]
    /\ UNCHANGED <<db, txn, batch, del, probe, stats, store>>

\* this.guardDutyScanner.scan(account, region.region) is called first,
CanaryInvoke ==
    /\ scan.pc = "canary"
    /\ scan' = [scan EXCEPT !.pc = "canaryWait",
                            !.outcome = IdleScan.outcome,
                            !.regionFindings = <<>>,
                            !.invoked = @ \cup {Invocation(scan.r, "GuardDuty", "canary")}]
    /\ UNCHANGED <<db, txn, batch, del, probe, stats, store>>

\* The canary's test without its httpStatusCode disjunct.
CanaryVerdictNameOnly(outcome) ==
    IF ~outcome.ok /\ outcome.error.name = "UnrecognizedClientException"
    THEN "abort" ELSE "proceed"

\* A canary whose catch block rethrows whatever the probe threw.
CanaryVerdictAnyError(outcome) == IF ~outcome.ok THEN "abort" ELSE "proceed"

\* What the canary's catch block does with the probe's outcome.
CanaryVerdict(outcome) ==
    IF ~outcome.ok /\ IsInvalidCredentials(outcome.error) THEN "abort" ELSE "proceed"

\* throw new Error(`Invalid AWS credentials for account ...`)
InvalidCredentialsError == PlainError({"Invalid", "AWS", "credentials", "for", "account"})

\* An outer catch that logs and goes on with the next region.
CanaryAbortSkipsRegion ==
    [scan EXCEPT !.r = @ + 1, !.pc = AfterRegion(scan.regions, scan.r + 1)]

\* The region's outer catch: logger.error(...); throw error.
CanaryAbort == ScanFail(InvalidCredentialsError)

\* and awaited: an invalid-credentials error is replaced by a new Error, which
\* the region's outer catch rethrows; every other outcome is dropped.
\* scan.canary keeps the probe's outcome for the properties, and scan.invoked
\* that the canary of the region threw and was swallowed.
\* A canary whose returned findings are kept for the region.
CanarySettleKeepsFindings(aws) ==
    /\ scan.pc = "canaryWait"
    /\ LET outcome == GuardDutyScan(TheAccount, aws)
       IN  scan' = IF CanaryVerdict(outcome) = "abort"
                   THEN [CanaryAbort EXCEPT !.canary = outcome]
                   ELSE [scan EXCEPT !.pc = "fanout", !.canary = outcome,
                                     !.allFindings =
                                         @ \o [i \in 1..Len(CatchToEmpty(outcome)) |->
                                                 [service |-> outcome.findings[i].service,
                                                  severity |-> outcome.findings[i].severity,
                                                  resourceId |-> outcome.findings[i].resourceId,
                                                  region |-> scan.regions[scan.r].region]],
                                     !.invoked = IF outcome.ok THEN @
                                                 ELSE @ \cup {Invocation(scan.r, "GuardDuty", "swallowed")}]
    /\ UNCHANGED <<db, txn, batch, del, probe, stats, store>>

CanarySettle(aws) ==
    /\ scan.pc = "canaryWait"
    /\ LET outcome == GuardDutyScan(TheAccount, aws)
       IN  scan' = IF CanaryVerdict(outcome) = "abort"
                   THEN [CanaryAbort EXCEPT !.canary = outcome]
                   ELSE [scan EXCEPT !.pc = "fanout", !.canary = outcome,
                                     !.invoked = IF outcome.ok THEN @
                                                 ELSE @ \cup {Invocation(scan.r, "GuardDuty", "swallowed")}]
    /\ UNCHANGED <<db, txn, batch, del, probe, stats, store>>

\* The array literal of Promise.all calls the six scan() in order.
FanoutInvoke ==
    /\ scan.pc = "fanout"
    /\ scan' = [scan EXCEPT !.pc = "join", !.pending = ProbeSet,
                            !.canary = IdleScan.canary,
                            !.outcome = IdleScan.outcome,
                            !.invoked = @ \cup {Invocation(scan.r, p, "fanout") : p \in ProbeSet}]
    /\ UNCHANGED <<db, txn, batch, del, probe, stats, store>>

\* What the fan-out keeps of a settled probe: its list, or that it failed
\* (the error itself is only logged).
Settled(outcome) == [ok |-> outcome.ok, findings |-> outcome.findings]

\* One probe of the fan-out settles, in any order.
ProbeSettle(p, aws) ==
    /\ scan.pc = "join"
    /\ p \in scan.pending
    /\ LET outcome == ProbeScan(p, TheAccount, aws)
       IN  scan' = [scan EXCEPT !.pending = @ \ {p},
                                !.outcome[p] = Settled(outcome),
                                !.quiet = IF CatchToEmpty(outcome) = <<>>
                                          THEN @ + 1 ELSE @]
    /\ UNCHANGED <<db, txn, batch, del, probe, stats, store>>

\* findings.flat(): the six result lists in the order of the array.
RECURSIVE Flat(_, _)
RECURSIVE FlatReversed(_, _)
\* A flattening that takes the probes' lists last to first.
FlatReversed(outcome, i) ==
    IF i > Len(Probes) THEN <<>>
    ELSE FlatReversed(outcome, i + 1) \o CatchToEmpty(outcome[Probes[i]])

Flat(outcome, i) ==
    IF i > Len(Probes) THEN <<>>
    ELSE CatchToEmpty(outcome[Probes[i]]) \o Flat(outcome, i + 1)

\* A map that labels every finding "global" whatever the region scanned.
StampGlobal(list, region) ==
    [i \in 1..Len(list) |->
        [service |-> list[i].service, severity |-> list[i].severity,
         resourceId |-> list[i].resourceId, region |-> "global"]]

\* .map(finding => ({...finding, region: region.region}))
Stamp(list, region) ==
    [i \in 1..Len(list) |->
        [service |-> list[i].service, severity |-> list[i].severity,
         resourceId |-> list[i].resourceId, region |-> region]]

\* A fan-out whose single rejection empties the whole region.
RegionFindingsAllOrNothing(outcome, region) ==
    IF \E p \in ProbeSet : ~outcome[p].ok THEN <<>> ELSE Stamp(Flat(outcome, 1), region)

RegionFindings(outcome, region) == Stamp(Flat(outcome, 1), region)

\* A join that puts the region's findings in front of the list.
FanoutJoinPrepends ==
    /\ scan.pc = "join"
    /\ scan.pending = {}
    /\ LET found == RegionFindings(scan.outcome, scan.regions[scan.r].region)
       IN  scan' = [scan EXCEPT !.allFindings = found \o @,
                                !.regionFindings = found,
                                !.r = @ + 1,
                                !.pc = AfterRegion(scan.regions, scan.r + 1)]
    /\ UNCHANGED <<db, txn, batch, del, probe, stats, store>>

\* Promise.all resolves; the region's findings are appended.
FanoutJoin ==
    /\ scan.pc = "join"
    /\ scan.pending = {}
    /\ LET found == RegionFindings(scan.outcome, scan.regions[scan.r].region)
       IN  scan' = [scan EXCEPT !.allFindings = @ \o found,
                                !.regionFindings = found,
                                !.r = @ + 1,
                                !.pc = AfterRegion(scan.regions, scan.r + 1)]
    /\ UNCHANGED <<db, txn, batch, del, probe, stats, store>>

\* A loop that stops one finding short of the list.
AfterInsertDropsLast(list, k) == IF k < Len(list) THEN "run" ELSE "finalize"

\* The for loop of storeFindingsForAccount: the next stmt.run, or finalize.
AfterInsert(list, k) == IF k <= Len(list) THEN "run" ELSE "finalize"

\* storeFindingsForAccount: const stmt = await db.prepare(...)
StorePrepare(ok) ==
    /\ scan.pc = "store"
    /\ scan' = IF ~ok THEN [ScanFail(DbError) EXCEPT !.writes = @ + 1,
                                                     !.outcome = IdleScan.outcome,
                                                     !.regionFindings = <<>>]
               ELSE [scan EXCEPT !.k = 1, !.writes = @ + 1,
                                 !.outcome = IdleScan.outcome,
                                 !.regionFindings = <<>>,
                                 !.pc = AfterInsert(scan.allFindings, 1)]
    /\ UNCHANGED <<db, txn, batch, del, probe, stats, store>>

\* await stmt.run(accountId, finding.region, ...): one row, in autocommit
\* unless a transaction is open on the connection.
StoreRun(ok) ==
    /\ scan.pc = "run"
    /\ IF ok
       THEN /\ db' = InsertFinding(db, scan.accountId, scan.allFindings[scan.k])
            /\ scan' = [scan EXCEPT !.k = @ + 1,
                                    !.pc = AfterInsert(scan.allFindings, scan.k + 1)]
       ELSE /\ db' = db
            /\ scan' = ScanFail(DbError)
    /\ UNCHANGED <<txn, batch, del, probe, stats, store>>

\* await stmt.finalize(); return allFindings
StoreFinalize(ok) ==
    /\ scan.pc = "finalize"
    /\ scan' = IF ok THEN [scan EXCEPT !.pc = "done"] ELSE ScanFail(DbError)
    /\ UNCHANGED <<db, txn, batch, del, probe, stats, store>>

\* A probe may answer off-nominally while the scan's quiet budget lasts.
WithinQuietBudget(aws) ==
    aws.kind = "nominal" \/ scan.quiet < MaxQuietProbes

FanoutSettle(p, aws) == WithinQuietBudget(aws) /\ ProbeSettle(p, aws)

\* The steps of scanAccount, the AWS side answering the canary from
\* `canaryAnswers` and the fan-out from `fanoutAnswers`.
ScanStep(canaryAnswers, fanoutAnswers) ==
    \/ \E ok \in BOOLEAN : ScanGetAccount(ok)
    \/ \E ok \in BOOLEAN : ScanGetEnabledRegions(ok)
    \/ CanaryInvoke
    \/ \E aws \in canaryAnswers : CanarySettle(aws)
    \/ FanoutInvoke
    \/ \E p \in ProbeSet, aws \in fanoutAnswers : FanoutSettle(p, aws)
    \/ FanoutJoin
    \/ \E ok \in BOOLEAN : StorePrepare(ok)
    \/ \E ok \in BOOLEAN : StoreRun(ok)
    \/ \E ok \in BOOLEAN : StoreFinalize(ok)

(***************************************************************************)
(* POST /api/scanner/scan/:accountId: one scanAccount call, for any id.    *)
(***************************************************************************)
RouteScan(id) ==
    /\ scan.pc = "idle"
    /\ batch.pc = "idle"
    /\ scan' = ScanEnter(id, "route")
    /\ UNCHANGED <<db, txn, batch, del, probe, stats, store>>

Next ==
    \/ \E id \in 1..(MaxAccounts + 1) : RouteScan(id)
    \/ ScanStep(AwsResponses, AwsResponses)

Spec == Init /\ [][Next]_vars

(***************************************************************************)
(* POST /api/findings/scan/:accountId: the account is looked up before     *)
(* scanAccount is called; and the answers of both scan routes.             *)
(***************************************************************************)
FindingsRouteEnter(id) ==
    /\ scan.pc = "idle"
    /\ batch.pc = "idle"
    /\ scan' = [IdleScan EXCEPT !.pc = "routeCheck", !.caller = "findings",
                                !.accountId = id, !.before = db.findings]
    /\ UNCHANGED <<db, txn, batch, del, probe, stats, store>>

\* const account = await dbService.getAccount(accountId);
\* if (!account) return res.status(404).json({ error: 'Account not found' });
FindingsRouteCheck(ok) ==
    /\ scan.pc = "routeCheck"
    /\ scan' = IF ~ok
               THEN [scan EXCEPT !.pc = "failed", !.error = DbError, !.http = 500]
               ELSE IF getAccount(db, scan.accountId) = {}
                    THEN [scan EXCEPT !.pc = "failed", !.error = AccountNotFound,
                                      !.http = 404]
                    ELSE ScanEnter(scan.accountId, "findings")
    /\ UNCHANGED <<db, txn, batch, del, probe, stats, store>>

\* res.json(...) after scanAccount returned; res.status(500).json({ error })
\* in the catch block of either route.
RouteRespond ==
    /\ scan.pc \in {"done", "failed"}
    /\ scan.caller \in {"route", "findings"}
    /\ scan.http = NoStatus
    /\ scan' = [scan EXCEPT !.http = IF scan.pc = "done" THEN 200 ELSE 500]
    /\ UNCHANGED <<db, txn, batch, del, probe, stats, store>>


(***************************************************************************)
(* SecurityScanner.scanAllAccounts.                                        *)
(***************************************************************************)
\* scanAllAccounts() is called (POST /api/findings/scan, /api/scanner/scan-all).
BatchEnter ==
    /\ batch.pc = "idle"
    /\ scan.pc = "idle"
    /\ batch' = [IdleBatch EXCEPT !.pc = "getAccounts"]
    /\ UNCHANGED <<db, txn, scan, del, probe, stats, store>>

\* A loop that stops at the first account whose scan failed.
AfterAccountFailFast(accounts, i) ==
    IF i <= Len(accounts) /\ scan.pc # "failed" THEN "loop" ELSE "done"

\* The for loop's test: the next account, or return allFindings.
AfterAccount(accounts, i) == IF i <= Len(accounts) THEN "loop" ELSE "done"

\* const accounts = await this.dbService.getAccounts(); outside any try block.
BatchGetAccounts(ok) ==
    /\ batch.pc = "getAccounts"
    /\ batch' = IF ~ok THEN [batch EXCEPT !.pc = "failed", !.error = DbError]
                ELSE LET accounts == getAccounts(db)
                     IN  [batch EXCEPT !.accounts = accounts, !.i = 1, !.listed = TRUE,
                                       !.pc = AfterAccount(accounts, 1)]
    /\ UNCHANGED <<db, txn, scan, del, probe, stats, store>>

\* const findings = await this.scanAccount(account.id);
BatchScan ==
    /\ batch.pc = "loop"
    /\ scan.pc = "idle"
    /\ scan' = ScanEnter(batch.accounts[batch.i].id, "batch")
    /\ UNCHANGED <<db, txn, batch, del, probe, stats, store>>

\* error instanceof Error ? error.message : 'Unknown error occurred'
ErrorMessage(e) == IF e.isError THEN e.msg ELSE {"Unknown", "error", "occurred"}

\* allFindings.push({accountId, findings}) or, in the catch block,
\* allFindings.push({accountId, error}).
BatchEntry(accountId, call) ==
    IF call.pc = "done"
    THEN [accountId |-> accountId, fields |-> {"accountId", "findings"},
          findings |-> call.allFindings, error |-> {}]
    ELSE [accountId |-> accountId, fields |-> {"accountId", "error"},
          findings |-> <<>>, error |-> ErrorMessage(call.error)]

\* How a scanAccount call ended, for the properties.
CallRecord(call) ==
    [accountId |-> call.accountId, ok |-> call.pc = "done",
     returned |-> IF call.pc = "done" THEN call.allFindings ELSE <<>>,
     error |-> call.error]

\* A loop body without its try/catch: the account's error leaves the loop.
BatchAfterCallUncaught(b, call) ==
    IF call.pc = "failed"
    THEN [b EXCEPT !.pc = "failed", !.error = call.error,
                   !.calls = Append(@, CallRecord(call))]
    ELSE [b EXCEPT !.allFindings = Append(@, BatchEntry(b.accounts[b.i].id, call)),
                   !.i = @ + 1,
                   !.pc = AfterAccount(b.accounts, b.i + 1),
                   !.calls = Append(@, CallRecord(call))]

\* The loop body after scanAccount returned or threw: try pushes the
\* findings, catch pushes the error, and the loop goes on either way.
BatchAfterCall(b, call) ==
    [b EXCEPT !.allFindings = Append(@, BatchEntry(b.accounts[b.i].id, call)),
              !.i = @ + 1,
              !.pc = AfterAccount(b.accounts, b.i + 1),
              !.calls = Append(@, CallRecord(call))]

\* A loop that goes on to the next account while the bulk write of the
\* previous one is still running.
BatchCollectEarly ==
    /\ batch.pc = "loop"
    /\ scan.caller = "batch"
    /\ scan.pc \in {"run", "finalize", "done", "failed"}
    /\ batch' = BatchAfterCall(batch, scan)
    /\ scan' = IdleScan
    /\ UNCHANGED <<db, txn, del, probe, stats, store>>

\* scanAccount has settled: its await in the loop body resumes.
BatchCollect ==
    /\ batch.pc = "loop"
    /\ scan.caller = "batch"
    /\ scan.pc \in {"done", "failed"}
    /\ batch' = BatchAfterCall(batch, scan)
    /\ scan' = IdleScan
    /\ UNCHANGED <<db, txn, del, probe, stats, store>>

BatchStep ==
    \/ BatchEnter
    \/ \E ok \in BOOLEAN : BatchGetAccounts(ok)
    \/ BatchScan
    \/ BatchCollect

(***************************************************************************)
(* DatabaseService.deleteAccount, one action per statement.                *)
(***************************************************************************)
DeleteFail(e) == [del EXCEPT !.pc = "failed", !.error = e, !.after = db]

\* deleteAccount(id) is called (DELETE /api/accounts/:accountId).
DeleteEnter(id) ==
    /\ del.pc = "idle"
    /\ del' = [IdleDel EXCEPT !.pc = "begin", !.id = id]
    /\ UNCHANGED <<db, txn, scan, batch, probe, stats, store>>

\* await db.run('BEGIN TRANSACTION'), before the try block: a failure (and
\* BEGIN inside an open transaction is one) is thrown without ROLLBACK.
DeleteBegin(ok) ==
    /\ del.pc = "begin"
    /\ IF ok /\ ~txn.active
       THEN /\ txn' = [active |-> TRUE, db |-> db]
            /\ del' = [del EXCEPT !.pc = "findings", !.before = db]
       ELSE /\ txn' = txn
            /\ del' = [DeleteFail(DbError) EXCEPT !.before = db, !.at = "begin"]
    /\ UNCHANGED <<db, scan, batch, probe, stats, store>>

\* A cascade whose first statement deletes nothing.
DeleteRowsKeepsFindings(d, table, id) ==
    CASE table = "findings" -> d
      [] table = "regions" -> [d EXCEPT !.regions = {r \in @ : r.accountId # id}]
      [] table = "account" -> [d EXCEPT !.accounts = {a \in @ : a.id # id}]

\* The three DELETE statements, in the order the method runs them.
DeleteRows(d, table, id) ==
    CASE table = "findings" -> [d EXCEPT !.findings = {f \in @ : f.accountId # id}]
      [] table = "regions" -> [d EXCEPT !.regions = {r \in @ : r.accountId # id}]
      [] table = "account" -> [d EXCEPT !.accounts = {a \in @ : a.id # id}]

AfterDelete(table) ==
    CASE table = "findings" -> "regions"
      [] table = "regions" -> "account"
      [] table = "account" -> "commit"

\* await db.run('DELETE FROM ... WHERE ... = ?', id); a failure enters catch.
DeleteStatement(ok) ==
    /\ del.pc \in {"findings", "regions", "account"}
    /\ IF ok
       THEN /\ db' = DeleteRows(db, del.pc, del.id)
            /\ del' = [del EXCEPT !.pc = AfterDelete(del.pc)]
       ELSE /\ db' = db
            /\ del' = [del EXCEPT !.pc = "rollback", !.error = DbError, !.at = del.pc]
    /\ UNCHANGED <<txn, scan, batch, probe, stats, store>>

\* await db.run('COMMIT')
DeleteCommit(ok) ==
    /\ del.pc = "commit"
    /\ IF ok
       THEN /\ txn' = NoTxn
            /\ del' = [del EXCEPT !.pc = "done", !.after = db]
       ELSE /\ txn' = txn
            /\ del' = [del EXCEPT !.pc = "rollback", !.error = DbError, !.at = "commit"]
    /\ UNCHANGED <<db, scan, batch, probe, stats, store>>

\* A catch block whose ROLLBACK undoes nothing.
RolledBackNothing(d, t) == d

\* What ROLLBACK leaves on the connection: the tables as BEGIN found them.
RolledBack(d, t) == IF t.active THEN t.db ELSE d

\* catch (error) { await db.run('ROLLBACK'); throw error; }
DeleteRollback ==
    /\ del.pc = "rollback"
    /\ db' = RolledBack(db, txn)
    /\ txn' = NoTxn
    /\ del' = [del EXCEPT !.pc = "failed", !.after = RolledBack(db, txn)]
    /\ UNCHANGED <<scan, batch, probe, stats, store>>

\* The steps of deleteAccount, its statements succeeding or not as `oks` allows.
DeleteStep(oks) ==
    \/ \E ok \in oks : DeleteBegin(ok)
    \/ \E ok \in oks : DeleteStatement(ok)
    \/ \E ok \in oks : DeleteCommit(ok)
    \/ DeleteRollback

(***************************************************************************)
(* The region operations of DatabaseService.                               *)
(***************************************************************************)
\* addRegion(region): POST /api/accounts/:accountId/regions
addRegion(accountId, region, enabled) ==
    /\ db' = InsertRegion(db, accountId, region, enabled)
    /\ UNCHANGED <<txn, scan, batch, del, probe, stats, store>>

\* UPDATE aws_regions SET enabled = ? WHERE id = ?
UpdateRegion(d, id, enabled) ==
    [d EXCEPT !.regions = {IF r.id = id THEN [r EXCEPT !.enabled = enabled] ELSE r : r \in @}]

\* updateRegionStatus(id, enabled): PATCH /api/accounts/:id/regions/:regionId
updateRegionStatus(id, enabled) ==
    /\ db' = UpdateRegion(db, id, enabled)
    /\ UNCHANGED <<txn, scan, batch, del, probe, stats, store>>

(***************************************************************************)
(* The specifications.                                                     *)
(***************************************************************************)
Nominal == [kind |-> "nominal", error |-> NoError]

Quiescent(call) == call.pc \in {"idle", "done", "failed"}

\* scanAllAccounts with every probe of the fan-out answering nominally, and
\* one account deleted, without failure, between two accounts of the loop.
NextAll ==
    \/ Quiescent(del) /\ BatchStep
    \/ Quiescent(del) /\ ScanStep(AwsResponses, {Nominal})
    \/ \E id \in 1..MaxAccounts :
          batch.pc = "loop" /\ scan.pc = "idle" /\ DeleteEnter(id)
    \/ DeleteBegin(TRUE)
    \/ DeleteStatement(TRUE)
    \/ DeleteCommit(TRUE)

SpecAll == Init /\ [][NextAll]_vars

\* One scanAccount and one deleteAccount, interleaved at every await.
NextDelete ==
    \/ \E id \in 1..MaxAccounts : RouteScan(id)
    \/ ScanStep({Nominal}, {Nominal})
    \/ \E id \in 1..MaxAccounts : DeleteEnter(id)
    \/ DeleteStep(BOOLEAN)

SpecDelete == Init /\ [][NextDelete]_vars

\* region rows a client may add on top of the seeded ones
MaxAddedRegions == 1

\* Clients adding and toggling regions of the first two accounts.
NextRegions ==
    \/ \E a \in 1..2, i \in 1..2, enabled \in BOOLEAN :
          /\ db.seq.regions < MaxAccounts * MaxRegions + MaxAddedRegions
          /\ addRegion(a, RegionCodes[i], enabled)
    \/ \E r \in db.regions, enabled \in BOOLEAN :
          /\ r.accountId \in 1..2
          /\ updateRegionStatus(r.id, enabled)

SpecRegions == Init /\ [][NextRegions]_vars

\* A scan request on either route, for a stored id or not, answered, while
\* one account is deleted without failure at any await.
NextRoutes ==
    \/ \E id \in 1..(MaxAccounts + 1) : RouteScan(id)
    \/ \E id \in 1..(MaxAccounts + 1) : FindingsRouteEnter(id)
    \/ \E ok \in BOOLEAN : FindingsRouteCheck(ok)
    \/ ScanStep({Nominal}, {Nominal})
    \/ RouteRespond
    \/ \E id \in 1..MaxAccounts : DeleteEnter(id)
    \/ DeleteBegin(TRUE)
    \/ DeleteStatement(TRUE)
    \/ DeleteCommit(TRUE)

SpecRoutes == Init /\ [][NextRoutes]_vars

\* scan requests one client sends one after the other
MaxScans == 2

\* POST /api/scanner/scan/:accountId again, once the previous scan has ended.
RescanEnter(id) ==
    /\ scan.pc \in {"idle", "done", "failed"}
    /\ batch.pc = "idle"
    /\ scan.n < MaxScans
    /\ scan' = [ScanEnter(id, "route") EXCEPT !.n = scan.n + 1]
    /\ UNCHANGED <<db, txn, batch, del, probe, stats, store>>

\* Scans repeated over the stored accounts, AWS answering nominally and the
\* store accepting every statement.
NextRepeat ==
    \/ \E id \in 1..MaxAccounts : RescanEnter(id)
    \/ ScanGetAccount(TRUE)
    \/ ScanGetEnabledRegions(TRUE)
    \/ CanaryInvoke
    \/ CanarySettle(Nominal)
    \/ FanoutInvoke
    \/ \E p \in ProbeSet : FanoutSettle(p, Nominal)
    \/ FanoutJoin
    \/ StorePrepare(TRUE)
    \/ StoreRun(TRUE)
    \/ StoreFinalize(TRUE)

SpecRepeat == Init /\ [][NextRepeat]_vars

(***************************************************************************)
(* Properties of scanAccount (under Spec).                                 *)
(***************************************************************************)
\* The canary probe threw, and its error carries the forbidden /
\* unrecognized-client signal.
CanaryThrewSignal ==
    /\ ~scan.canary.ok
    /\ (scan.canary.error.status = 403
        \/ scan.canary.error.name = "UnrecognizedClientException")

\* C1: when the canary of any enabled region throws a credential-class error
\* (HTTP 403 or the unrecognized-client signal), scanAccount has failed with
\* the invalid-credentials error and the account's stored findings are those
\* from before the scan, whatever earlier regions had produced.
C1_CanaryCredentialErrorFailsScan ==
    CanaryThrewSignal =>
        /\ scan.pc = "failed"
        /\ scan.error = InvalidCredentialsError
        /\ "credentials" \in scan.error.msg
        /\ FindingsOf(db, scan.accountId) = FindingsOf([findings |-> scan.before], scan.accountId)

\* C1 witness: the canary of the second region throws HTTP 403 after the first
\* region produced findings.
C1_Witness ==
    /\ CanaryThrewSignal
    /\ scan.canary.error.status = 403
    /\ scan.r = 2
    /\ Len(scan.allFindings) > 0
    /\ scan.pc = "failed"

\* The fan-out of region scan.r - 1 has just been joined.
JustJoined == scan.pc \in {"canary", "store"} /\ scan.r > 1


RECURSIVE SumLen(_, _)
SumLen(outcome, ps) ==
    IF ps = {} THEN 0
    ELSE LET p == CHOOSE q \in ps : TRUE
         IN  (IF outcome[p].ok THEN Len(outcome[p].findings) ELSE 0) + SumLen(outcome, ps \ {p})

\* C2: a fan-out probe that fails contributes an empty list and nothing else
\* changes: the region's findings are exactly the findings of the probes that
\* succeeded, stamped with the region, they are appended to the account's
\* list, and the scan goes on (next region's canary, or the bulk write).
C2_ProbeFailureIsIsolated ==
    /\ JustJoined =>
          LET region == scan.regions[scan.r - 1].region
              n == Len(scan.regionFindings)
              m == Len(scan.allFindings)
          IN  /\ \A p \in ProbeSet :
                    IF scan.outcome[p].ok
                    THEN \A i \in 1..Len(scan.outcome[p].findings) :
                            LET f == scan.outcome[p].findings[i]
                            IN  \E j \in 1..n :
                                   /\ scan.regionFindings[j].service = f.service
                                   /\ scan.regionFindings[j].severity = f.severity
                                   /\ scan.regionFindings[j].resourceId = f.resourceId
                                   /\ scan.regionFindings[j].region = region
                    ELSE \A j \in 1..n : scan.regionFindings[j].service # p
              /\ n = SumLen(scan.outcome, ProbeSet)
              /\ m >= n
              /\ SubSeq(scan.allFindings, m - n + 1, m) = scan.regionFindings
    /\ (\E p \in ProbeSet : ~scan.outcome[p].ok) => scan.pc \in {"join", "canary", "store"}

\* C2 witness: a region was joined in which one probe failed and another
\* returned a finding, and the next region's canary is about to run.
C2_Witness ==
    /\ JustJoined
    /\ scan.pc = "canary"
    /\ \E p \in ProbeSet : ~scan.outcome[p].ok
    /\ \E p \in ProbeSet : scan.outcome[p].ok /\ Len(scan.outcome[p].findings) > 0
    /\ Len(scan.regionFindings) > 0

\* C5 (as claimed): a failed scanAccount leaves the stored findings exactly as
\* they were before the scan, the bulk write being all-or-nothing.
C5_FailedScanLeavesFindingsUntouched ==
    scan.pc = "failed" => db.findings = scan.before

\* Credential-class in the sense of the probe's catch block: HTTP 403, the
\* unrecognized-client signal, or a message containing "credentials" or
\* "AccessDenied".
CredentialClass(e) ==
    \/ e.status = 403
    \/ e.name = "UnrecognizedClientException"
    \/ "credentials" \in e.msg
    \/ "AccessDenied" \in e.msg

\* C9 (as claimed): whenever the canary probe throws a credential-class error,
\* scanAccount has aborted with the invalid-credentials error and has not gone
\* on to the fan-out.
C9_CanaryDetectsEveryCredentialError ==
    (~scan.canary.ok /\ CredentialClass(scan.canary.error)) =>
        (scan.pc = "failed" /\ scan.error = InvalidCredentialsError)

\* C10: when the canary of region k throws a credential-class error (HTTP 403
\* or unrecognized client), scanAccount has failed at once: no fan-out probe
\* was invoked for region k, no probe at all for a later region, and
\* storeFindingsForAccount was never called.
C10_AbortIsImmediate ==
    CanaryThrewSignal =>
        /\ scan.pc = "failed"
        /\ \A c \in scan.invoked :
              /\ c.r <= scan.r
              /\ (c.r = scan.r => c.role = "canary")
        /\ scan.writes = 0
        /\ db.findings = scan.before

\* C10 witness: the canary of the first of several regions is refused as an
\* unrecognized client.
C10_Witness ==
    /\ CanaryThrewSignal
    /\ scan.canary.error.name = "UnrecognizedClientException"
    /\ scan.r = 1
    /\ Len(scan.regions) > 1
    /\ Invocation(1, "GuardDuty", "canary") \in scan.invoked


(***************************************************************************)
(* Properties of scanAllAccounts (under SpecAll).                          *)
(***************************************************************************)
\* C3: scanAllAccounts pushes one entry per listed account, in listing order:
\* after the loop there are exactly as many entries as accounts; the entry of
\* an account whose scanAccount threw carries the error message and no
\* findings, the entry of every other account carries the list its scanAccount
\* returned; the scans after a failed one still run.
C3_OneEntryPerAccount ==
    /\ batch.pc \in {"loop", "done"} =>
          /\ Len(batch.allFindings) = batch.i - 1
          /\ Len(batch.calls) = batch.i - 1
          /\ batch.i - 1 <= Len(batch.accounts)
          /\ \A j \in 1..Len(batch.allFindings) :
                LET entry == batch.allFindings[j]
                    call == batch.calls[j]
                IN  /\ entry.accountId = batch.accounts[j].id
                    /\ call.accountId = entry.accountId
                    /\ IF call.ok
                       THEN /\ entry.fields = {"accountId", "findings"}
                            /\ entry.findings = call.returned
                       ELSE /\ entry.fields = {"accountId", "error"}
                            /\ entry.error = call.error.msg
                            /\ entry.error # {}
                            /\ entry.findings = <<>>
    /\ batch.pc = "done" => Len(batch.allFindings) = Len(batch.accounts)
    /\ batch.listed => batch.pc \in {"loop", "done"}

\* C3 witness: three or more accounts were scanned, the second failed, the
\* first and the third returned their findings.
C3_Witness ==
    /\ batch.pc = "done"
    /\ Len(batch.allFindings) >= 3
    /\ batch.allFindings[1].fields = {"accountId", "findings"}
    /\ Len(batch.allFindings[1].findings) > 0
    /\ batch.allFindings[2].fields = {"accountId", "error"}
    /\ batch.allFindings[3].fields = {"accountId", "findings"}

\* C4 (as claimed): scanAllAccounts never fails as a whole, not even when the
\* account listing fails.
C4_BatchNeverFails == batch.pc # "failed"

\* C4 (amended): scanAllAccounts fails as a whole only when the account
\* listing itself fails, before any account is scanned; once the listing has
\* returned, no outcome of the store or of the probes makes the call fail,
\* and it returns one entry per listed account.
C4_BatchFailsOnlyOnListing ==
    /\ batch.pc = "failed" =>
          /\ ~batch.listed
          /\ batch.calls = <<>>
          /\ batch.allFindings = <<>>
          /\ batch.error = DbError
          /\ scan.pc = "idle"
    /\ batch.listed => batch.pc # "failed"
    /\ (batch.listed /\ batch.pc = "done") => Len(batch.allFindings) = Len(batch.accounts)

\* C4 witness: the listing returned, scans of two accounts threw, and the
\* call still returned its list.
C4_Witness ==
    /\ batch.listed
    /\ batch.pc = "done"
    /\ Cardinality({j \in 1..Len(batch.calls) : ~batch.calls[j].ok}) >= 2

(***************************************************************************)
(* Properties of deleteAccount (under SpecDelete).                         *)
(***************************************************************************)
RowIds(rows) == {x.id : x \in rows}

\* The ids of the rows of account `id` in the three tables of `d`.
RowsOf(d, id) ==
    [accounts |-> RowIds({a \in d.accounts : a.id = id}),
     regions |-> RowIds({r \in d.regions : r.accountId = id}),
     findings |-> RowIds({f \in d.findings : f.accountId = id})]

\* The rows the account had before the delete that are still in `d`.
Remaining(d) ==
    LET pre == RowsOf(del.before, del.id)
        now == RowsOf(d, del.id)
    IN  [accounts |-> pre.accounts \cap now.accounts,
         regions |-> pre.regions \cap now.regions,
         findings |-> pre.findings \cap now.findings]

NoRows == [accounts |-> {}, regions |-> {}, findings |-> {}]

\* C6: deleteAccount is atomic.  When it throws, whichever statement failed,
\* the three tables are as BEGIN found them and an error is surfaced; when it
\* returns, none of the account's rows is left; and afterwards the rows the
\* account had before the call are either all in the store or all gone.
C6_DeleteIsAtomic ==
    /\ del.pc = "failed" =>
          /\ del.after = del.before
          /\ del.error # NoError
          /\ Remaining(del.after) = RowsOf(del.before, del.id)
    /\ del.pc = "done" => Remaining(del.after) = NoRows
    /\ del.pc \in {"done", "failed"} =>
          \/ Remaining(db) = RowsOf(del.before, del.id)
          \/ Remaining(db) = NoRows

\* C6 witness: the account had findings and regions, its findings and regions
\* were deleted, the DELETE of the account row failed, and all of them are
\* back.
C6_Witness ==
    /\ del.pc = "failed"
    /\ del.at = "account"
    /\ RowsOf(del.before, del.id).findings # {}
    /\ RowsOf(del.before, del.id).regions # {}
    /\ RowsOf(db, del.id) = RowsOf(del.before, del.id)

\* C7 (as claimed): every stored finding was written while its account row
\* existed.
C7_FindingsReferenceLiveAccount == \A f \in db.findings : f.live

(***************************************************************************)
(* Properties of the region operations (under SpecRegions).                *)
(***************************************************************************)
\* C8 (as claimed): the regions table holds at most one row per (account,
\* region code), addRegion of an existing pair being refused.
C8_RegionPairUnique ==
    \A r1, r2 \in db.regions :
        (r1.accountId = r2.accountId /\ r1.region = r2.region) => r1.id = r2.id


(***************************************************************************)
(* Further properties of scanAccount (under Spec).                         *)
(***************************************************************************)
\* The regions whose canary threw an error that the catch block dropped.
Swallowed == {c.r : c \in {x \in scan.invoked : x.role = "swallowed"}}

FanoutInvoked(r) == \A p \in ProbeSet : Invocation(r, p, "fanout") \in scan.invoked

\* C11: a canary error without the 403 / unrecognized-client signal is
\* swallowed.  Right after it the scan is at the fan-out of the same region;
\* every such region the loop has left had its six fan-out probes invoked; a
\* scan that returned has fanned out over every enabled region; and a scan
\* that failed did so by an invalid-credentials abort of a canary carrying
\* the signal or by a rejected store statement, never by the swallowed error.
C11_OtherCanaryErrorIsSwallowed ==
    /\ (~scan.canary.ok /\ ~CanaryThrewSignal) =>
          /\ scan.pc = "fanout"
          /\ scan.r \in Swallowed
    /\ \A r \in Swallowed :
          /\ (r < scan.r \/ scan.pc = "join") => FanoutInvoked(r)
          /\ scan.pc = "failed" =>
                /\ scan.error \in {InvalidCredentialsError, DbError}
                /\ scan.error = InvalidCredentialsError => (CanaryThrewSignal /\ scan.r > r)
    /\ (scan.pc = "done" /\ Swallowed # {}) =>
          \A r \in 1..Len(scan.regions) : FanoutInvoked(r)

\* C11 witness: the canary of the first of two regions was throttled, both
\* regions were fanned out and the scan returned its findings.
C11_Witness ==
    /\ scan.pc = "done"
    /\ 1 \in Swallowed
    /\ Len(scan.regions) >= 2
    /\ FanoutInvoked(1) /\ FanoutInvoked(2)
    /\ Len(scan.allFindings) > 0


\* The scanned account exists and none of its region rows is enabled.
NoEnabledRegion ==
    /\ scan.account # {}
    /\ ~\E r \in db.regions : r.accountId = scan.accountId /\ r.enabled

\* C12: for an existing account without an enabled region, scanAccount, once
\* past the region lookup, has invoked no probe and holds an empty list; it
\* calls storeFindingsForAccount once, with the empty list, no INSERT runs and
\* the stored findings stay as they were; it returns without error unless a
\* statement of the store itself is rejected.
C12_NoEnabledRegionScansNothing ==
    (NoEnabledRegion /\ scan.pc \notin {"idle", "getAccount", "getEnabledRegions"}) =>
        /\ scan.pc \in {"store", "finalize", "done", "failed"}
        /\ scan.regions = <<>>
        /\ scan.invoked = {}
        /\ scan.allFindings = <<>>
        /\ db.findings = scan.before
        /\ scan.writes <= 1
        /\ scan.pc \in {"finalize", "done"} => scan.writes = 1
        /\ scan.pc = "failed" => scan.error = DbError

\* C12 witness: an account whose region rows are all disabled was scanned and
\* the empty list returned after one call of the store.
C12_Witness ==
    /\ NoEnabledRegion
    /\ \E r \in db.regions : r.accountId = scan.accountId
    /\ scan.pc = "done"
    /\ scan.writes = 1
    /\ scan.allFindings = <<>>

\* C13: scanAccount on an id without an account row fails at the lookup with
\* the not-found error (or with the store's error when the lookup itself is
\* rejected): the regions are never looked up, no probe is invoked,
\* storeFindingsForAccount is never called and the findings stay as they were.
C13_MissingAccountFailsFast ==
    (scan.pc # "idle" /\ getAccount(db, scan.accountId) = {}) =>
        /\ scan.pc \in {"getAccount", "failed"}
        /\ scan.account = {}
        /\ scan.regions = <<>>
        /\ scan.invoked = {}
        /\ scan.writes = 0
        /\ db.findings = scan.before
        /\ scan.pc = "failed" =>
              /\ scan.error \in {AccountNotFound, DbError}
              /\ scan.error # DbError => {"not", "found"} \subseteq scan.error.msg

\* C13 witness: a scan of an id that is not in the store has failed with the
\* not-found error.
C13_Witness ==
    /\ scan.pc = "failed"
    /\ scan.error = AccountNotFound
    /\ getAccount(db, scan.accountId) = {}
    /\ scan.caller = "route"


(***************************************************************************)
(* Properties of the scan routes (under SpecRoutes).                       *)
(***************************************************************************)
\* C14 (as claimed): on both scan routes a request for an id without an
\* account is answered 404, every other error 500, also when the account is
\* deleted between the route's check and the scan's own lookup.
C14_MissingAccountAnswered404 ==
    scan.http # NoStatus =>
        scan.http = (IF scan.error = AccountNotFound THEN 404
                     ELSE IF scan.error # NoError THEN 500 ELSE 200)


(***************************************************************************)
(* Properties of the bulk write (under Spec).                              *)
(***************************************************************************)
\* The rows written since the scan began, in the order of their ids.
NewRows == SortById(db.findings \ scan.before)

\* The row is what the INSERT of storeFindingsForAccount makes of finding f.
RowOf(row, accountId, f) ==
    /\ row.accountId = accountId
    /\ row.region = f.region
    /\ row.service = f.service
    /\ row.severity = f.severity

\* C15: scanAccount calls storeFindingsForAccount at most once, and only when
\* the fan-out of every enabled region has been joined; until then nothing is
\* written; during the write the rows written are the first findings of the
\* accumulated list, in order; and when scanAccount has returned, the rows it
\* wrote are, one for one and in order, the findings of the list it returns.
C15_OneBulkWriteAfterLastJoin ==
    /\ scan.writes <= 1
    /\ scan.writes = 0 => db.findings = scan.before
    /\ scan.writes > 0 =>
          /\ scan.r = Len(scan.regions) + 1
          /\ scan.pending = {}
          /\ \A r \in 1..Len(scan.regions) : FanoutInvoked(r)
    /\ scan.pc \in {"run", "finalize", "done"} =>
          LET rows == NewRows
          IN  /\ scan.writes = 1
              /\ Len(rows) = scan.k - 1
              /\ \A j \in 1..Len(rows) : RowOf(rows[j], scan.accountId, scan.allFindings[j])
              /\ scan.pc \in {"finalize", "done"} => Len(rows) = Len(scan.allFindings)

\* C15 witness: a scan over two regions has returned, and each of its
\* findings is a row of the store.
C15_Witness ==
    /\ scan.pc = "done"
    /\ Len(scan.regions) >= 2
    /\ Len(scan.allFindings) >= 2
    /\ scan.allFindings[1].region # scan.allFindings[Len(scan.allFindings)].region
    /\ Len(NewRows) = Len(scan.allFindings)
    /\ scan.writes = 1


(***************************************************************************)
(* Further properties of deleteAccount (under SpecAll).                    *)
(***************************************************************************)
\* The rows of the accounts other than `id`.
OtherRows(d, id) ==
    [accounts |-> {a \in d.accounts : a.id # id},
     regions |-> {r \in d.regions : r.accountId # id},
     findings |-> {f \in d.findings : f.accountId # id}]

\* C16: once deleteAccount(id) has returned, no account row with that id, no
\* region row and no finding of that account is in the store, then and in
\* every later state; the findings query filtered by the id is empty; and the
\* rows of every other account are, at the return, what they were at BEGIN.
C16_DeletedAccountLeavesNoRows ==
    del.pc = "done" =>
        /\ RowsOf(del.after, del.id) = NoRows
        /\ RowsOf(db, del.id) = NoRows
        /\ getAccount(db, del.id) = {}
        /\ FindingsOf(db, del.id) = {}
        /\ OtherRows(del.after, del.id) = OtherRows(del.before, del.id)

\* C16 witness: an account with regions and findings was deleted while
\* another account had findings, and the batch then ran to its end.
C16_Witness ==
    /\ del.pc = "done"
    /\ RowsOf(del.before, del.id).findings # {}
    /\ RowsOf(del.before, del.id).regions # {}
    /\ OtherRows(del.after, del.id).findings # {}
    /\ batch.pc = "done"


(***************************************************************************)
(* Properties of repeated scans (under SpecRepeat).                        *)
(***************************************************************************)
\* Two rows that differ in nothing but their id.
Copies(x, y) ==
    /\ x.id # y.id
    /\ x.accountId = y.accountId
    /\ x.region = y.region
    /\ x.service = y.service
    /\ x.severity = y.severity

\* C17: a scan only appends.  Every row that was stored when the scan began
\* is still stored, unchanged; the rows it writes get ids above all earlier
\* ones; and when it has returned it has added exactly one row per finding
\* of the returned list, whether or not an equal row was there already.
C17_ScansAppend ==
    /\ scan.before \subseteq db.findings
    /\ \A x \in db.findings \ scan.before : \A y \in scan.before : x.id > y.id
    /\ scan.pc = "done" =>
          LET rows == NewRows
          IN  /\ Cardinality(db.findings) = Cardinality(scan.before) + Len(scan.allFindings)
              /\ Len(rows) = Len(scan.allFindings)
              /\ \A j \in 1..Len(rows) : RowOf(rows[j], scan.accountId, scan.allFindings[j])

\* C17 witness: the second of two identical scans of an account has returned
\* and each of its findings is stored twice.
C17_Witness ==
    /\ scan.pc = "done"
    /\ scan.n = 2
    /\ Len(scan.allFindings) > 0
    /\ \A x \in db.findings \ scan.before : \E y \in scan.before : Copies(x, y)
    /\ Cardinality(db.findings) = 2 * Len(scan.allFindings)


(***************************************************************************)
(* Properties of the accumulated list (under Spec).                        *)
(***************************************************************************)
\* The codes of the enabled regions whose fan-out has been joined.
JoinedRegionCodes == {scan.regions[r].region : r \in 1..(scan.r - 1)}

\* C18: every finding of the accumulated list carries the code of an enabled
\* region of the account whose fan-out has been joined, the findings of the
\* fan-out just joined carry the code of that very region, and the rows the
\* scan persists carry the regions of the list.
C18_FindingsCarryTheirRegion ==
    /\ \A i \in 1..Len(scan.allFindings) :
          /\ scan.allFindings[i].region \in JoinedRegionCodes
          /\ \E row \in db.regions :
                /\ row.accountId = scan.accountId
                /\ row.enabled
                /\ row.region = scan.allFindings[i].region
    /\ JustJoined =>
          \A j \in 1..Len(scan.regionFindings) :
              scan.regionFindings[j].region = scan.regions[scan.r - 1].region
    /\ scan.pc \in {"run", "finalize", "done"} =>
          LET rows == NewRows
          IN  \A j \in 1..Len(rows) : rows[j].region = scan.allFindings[j].region

\* C18 witness: a scan over two regions has returned and stored findings of
\* both, each probe having reported without knowing the region.
C18_Witness ==
    /\ scan.pc = "done"
    /\ Len(scan.regions) = 2
    /\ \A r \in 1..2 : \E j \in 1..Len(NewRows) : NewRows[j].region = scan.regions[r].region
    /\ \A r \in 1..2 :
          \E i \in 1..Len(scan.allFindings) : scan.allFindings[i].region = scan.regions[r].region


\* The place of a region code in the result of the region lookup.
RegionIndex(code) == CHOOSE r \in 1..Len(scan.regions) : scan.regions[r].region = code

\* C19: the accumulated list keeps the order of the region lookup: a finding
\* stamped with an earlier region stands before every finding stamped with a
\* later one, in whatever order the probes of a fan-out settled; and the rows
\* are written in that order.
C19_RegionOrderPreserved ==
    /\ LET at == [i \in 1..Len(scan.allFindings) |-> RegionIndex(scan.allFindings[i].region)]
       IN  \A a, b \in 1..Len(at) : a < b => at[a] <= at[b]
    /\ scan.pc \in {"run", "finalize", "done"} =>
          LET rows == NewRows
              at == [i \in 1..Len(rows) |-> RegionIndex(rows[i].region)]
          IN  \A a, b \in 1..Len(at) : a < b => at[a] <= at[b]

\* C19 witness: the list of a scan over two regions that both produced
\* findings begins with the first region and ends with the second.
C19_Witness ==
    /\ scan.pc \in {"store", "done"}
    /\ Len(scan.regions) = 2
    /\ Len(scan.allFindings) >= 2
    /\ scan.allFindings[1].region = scan.regions[1].region
    /\ scan.allFindings[Len(scan.allFindings)].region = scan.regions[2].region
    /\ scan.regions[1].region # scan.regions[2].region


(***************************************************************************)
(* Sequencing within scanAllAccounts (under SpecAll).                      *)
(***************************************************************************)
\* C20: probes are in flight only inside the fan-out of the current region:
\* while one is pending the scan is at that region's join and no probe of a
\* later region has been invoked, and a probe of a region is invoked only
\* after the fan-out of the region before it was invoked and has settled.
\* Accounts follow one another: the scan that runs is that of the account
\* the loop is at, and the scanAccount call of every account before it has
\* returned or thrown, its bulk write included.
C20_RegionsAndAccountsSequential ==
    /\ scan.pending # {} => scan.pc = "join"
    /\ \A c \in scan.invoked :
          /\ c.r <= scan.r
          /\ \A r \in 1..(c.r - 1) : FanoutInvoked(r)
    /\ scan.pc \in {"canary", "canaryWait", "fanout"} =>
          \A c \in scan.invoked : c.role = "fanout" => c.r < scan.r
    /\ (scan.pc # "idle" /\ scan.caller = "batch") =>
          /\ batch.pc = "loop"
          /\ scan.accountId = batch.accounts[batch.i].id
          /\ Len(batch.calls) = batch.i - 1
    /\ \A j \in 1..Len(batch.calls) :
          /\ batch.calls[j].accountId = batch.accounts[j].id
          /\ batch.calls[j].ok \/ batch.calls[j].error # NoError

\* C20 witness: the scan of the first account has returned, and the fan-out
\* of the second account's region is under way, some probes settled and
\* others not.
C20_Witness ==
    /\ batch.pc = "loop"
    /\ batch.i = 2
    /\ Len(batch.calls) = 1
    /\ batch.calls[1].ok
    /\ scan.pc = "join"
    /\ scan.pending # {}
    /\ scan.pending # ProbeSet


(***************************************************************************)
(* The canary and the fan-out of a region (under Spec).                    *)
(***************************************************************************)
\* C21: a fan-out probe of a region is invoked only when the canary of that
\* region has been invoked and has settled, by returning or by an error that
\* was swallowed: while the canary is due or awaited no fan-out probe of the
\* region has been invoked, and every finding of the list carries a region
\* whose canary was invoked.
C21_FanoutAfterCanary ==
    /\ \A c \in scan.invoked :
          c.role = "fanout" =>
              /\ Invocation(c.r, "GuardDuty", "canary") \in scan.invoked
              /\ ~(scan.pc \in {"canary", "canaryWait"} /\ c.r = scan.r)
    /\ \A i \in 1..Len(scan.allFindings) :
          \E r \in 1..(scan.r - 1) :
              /\ scan.regions[r].region = scan.allFindings[i].region
              /\ Invocation(r, "GuardDuty", "canary") \in scan.invoked

\* C21 witness: in the second region the canary threw, was swallowed, and
\* the fan-out is under way after it.
C21_Witness ==
    /\ scan.pc = "join"
    /\ scan.r = 2
    /\ 2 \in Swallowed
    /\ scan.pending # {}
    /\ Len(scan.allFindings) > 0


\* The number of entries of a finding list that a given probe reported.
CountOf(list, p) == Cardinality({i \in 1..Len(list) : list[i].service = p})

\* C22: every region scanned to the end had GuardDuty invoked as canary and
\* again in the fan-out; what the canary returned is in no list (no finding
\* carries the region's code before the fan-out of the region is joined),
\* and the joined region holds the GuardDuty findings of the fan-out run
\* once each.
C22_CanaryDiscarded ==
    /\ \A r \in 1..(scan.r - 1) :
          /\ Invocation(r, "GuardDuty", "canary") \in scan.invoked
          /\ Invocation(r, "GuardDuty", "fanout") \in scan.invoked
    /\ scan.pc \in {"canaryWait", "fanout", "join"} =>
          \A i \in 1..Len(scan.allFindings) :
              scan.allFindings[i].region # scan.regions[scan.r].region
    /\ JustJoined =>
          CountOf(scan.regionFindings, "GuardDuty")
              = Len(CatchToEmpty(scan.outcome["GuardDuty"]))

\* C22 witness: the first region was scanned to the end and left its one
\* GuardDuty finding of the fan-out in the list; the canary of the second
\* region has returned a finding, which is in no list.
C22_Witness ==
    /\ scan.pc = "fanout"
    /\ scan.r = 2
    /\ scan.canary.ok
    /\ Len(scan.canary.findings) = 1
    /\ 1 \notin Swallowed
    /\ CountOf(scan.allFindings, "GuardDuty") = 1

\* C23: when the canary threw the credential signal and scanAccount failed,
\* the error the caller receives is the error the canary threw.
C23_CanaryErrorVerbatim ==
    (scan.pc = "failed" /\ CanaryThrewSignal) => scan.error = scan.canary.error


(***************************************************************************)
(* The order of a region's findings (under Spec).                          *)
(***************************************************************************)
\* The place of a probe in the array given to Promise.all.
ProbeIndex(p) == CHOOSE i \in 1..Len(Probes) : Probes[i] = p

\* C28: the findings of a joined region are in the order of the probes in
\* the Promise.all array (IAM, CloudTrail, CloudWatch, KMS, GuardDuty,
\* SecurityHub), whatever order the probes settled in, and they are the
\* probes' lists one after the other, so equal lists give an equal result.
C28_FixedProbeOrder ==
    JustJoined =>
        LET list == scan.regionFindings
        IN  /\ \A i, j \in 1..Len(list) :
                  i < j => ProbeIndex(list[i].service) <= ProbeIndex(list[j].service)
            /\ Len(list) = SumLen(scan.outcome, ProbeSet)
            /\ \A p \in ProbeSet :
                  CountOf(list, p) = Len(CatchToEmpty(scan.outcome[p]))

\* C28 witness: a joined region with findings of the first and of the last
\* probe of the array.
C28_Witness ==
    /\ JustJoined
    /\ Len(scan.regionFindings) >= 2
    /\ scan.regionFindings[1].service = "IAM"
    /\ scan.regionFindings[Len(scan.regionFindings)].service = "SecurityHub"


(***************************************************************************)
(* One probe called on its own, and one addFinding after it.               *)
(***************************************************************************)
\* Severity.Label values of SecurityHub findings, in several spellings, and
\* "none" for a finding without a label.
Labels ==
    {"CRITICAL", "HIGH", "MEDIUM", "LOW", "INFORMATIONAL", "critical", "Medium", "UNKNOWN", "none"}

\* Severity scores of GuardDuty findings; 0 for a finding without a score.
Scores == {0, 2, 4, 6, 7, 9}

\* The errors an AWS call of a probe can throw.
ProbeErrors ==
    AwsErrors
    \cup { [isError |-> TRUE, name |-> n, status |-> 400, msg |-> {"not", "subscribed"}] :
             n \in NotEnabledNames }

\* What AWS answers to one run of a probe.
ProbeInputs ==
    { [kind |-> k, error |-> NoError, label |-> "none", score |-> 0] :
        k \in {"nominal", "clean", "ctorThrows"} }
    \cup { [kind |-> k, error |-> e, label |-> "none", score |-> 0] :
             k \in {"callThrows", "lateThrows"}, e \in ProbeErrors }
    \cup { [kind |-> "reported", error |-> NoError, label |-> l, score |-> n] :
             l \in Labels, n \in Scores }

\* The severity values a caller may hand to addFinding.
SeverityInputs == Severities \cup {"CRITICAL", "INFORMATIONAL", "high"}

\* A probe's scan(account, region) has been called.
InitProbe ==
    /\ db = SeededDb
    /\ txn = NoTxn
    /\ scan = IdleScan
    /\ batch = IdleBatch
    /\ del = IdleDel
    /\ stats = IdleStats
    /\ store = IdleStore
    /\ probe \in { [IdleProbe EXCEPT !.pc = "called", !.p = p, !.keys = keys, !.aws = aws] :
                     p \in ProbeSet, keys \in BOOLEAN, aws \in ProbeInputs }

\* The call settles: the promise of scan() is fulfilled or rejected.
ProbeReturn ==
    /\ probe.pc = "called"
    /\ probe' = [probe EXCEPT !.pc = "done",
                              !.outcome = ProbeScan(probe.p, [keys |-> probe.keys], probe.aws)]
    /\ UNCHANGED <<db, txn, scan, batch, del, stats, store>>

\* CHECK(severity IN ('HIGH', 'MEDIUM', 'LOW')) of asset_findings.
SeverityCheck(severity) == severity \in Severities

\* addFinding: one INSERT into asset_findings, which the CHECK constraint
\* of the column fails for a severity outside the enum.
addFinding(accountId, severity) ==
    /\ probe.pc = "done"
    /\ probe.write = "none"
    /\ IF SeverityCheck(severity)
       THEN /\ db' = InsertFinding(db, accountId,
                                   [service |-> probe.p, severity |-> severity,
                                    resourceId |-> "resource",
                                    region |-> RegionCodes[1]])
            /\ probe' = [probe EXCEPT !.severity = severity, !.write = "stored"]
       ELSE /\ db' = db
            /\ probe' = [probe EXCEPT !.severity = severity, !.write = "rejected"]
    /\ UNCHANGED <<txn, scan, batch, del, stats, store>>

NextProbe ==
    \/ ProbeReturn
    \/ \E severity \in SeverityInputs : addFinding(1, severity)

SpecProbe == InitProbe /\ [][NextProbe]_vars

\* The AWS call of the probe that failed, if one did.
CallFailed == probe.aws.kind \in {"callThrows", "lateThrows"}

\* C24: a GuardDuty probe whose credentials are missing, or one of whose
\* AWS calls failed (the first or a later one), ends with an error and
\* returns no finding list.
C24_GuardDutyNeverSwallows ==
    (probe.pc = "done" /\ probe.p = "GuardDuty" /\ (~probe.keys \/ CallFailed))
        => (~probe.outcome.ok /\ probe.outcome.error # NoError
            /\ probe.outcome.findings = <<>>)

\* C24 witness: GetFindings failed with a throttling error after
\* ListDetectors had answered, and the probe threw it.
C24_Witness ==
    /\ probe.pc = "done"
    /\ probe.p = "GuardDuty"
    /\ probe.keys
    /\ probe.aws.kind = "lateThrows"
    /\ probe.aws.error.name = "ThrottlingException"
    /\ ~probe.outcome.ok
    /\ probe.outcome.error = probe.aws.error


\* C25 as stated: a probe other than GuardDuty one of whose AWS calls
\* failed returns an empty list.
C25_FailedCallGivesEmptyList ==
    (probe.pc = "done" /\ probe.p # "GuardDuty" /\ CallFailed)
        => (probe.outcome.ok /\ probe.outcome.findings = <<>>)

\* C25: a probe other than GuardDuty one of whose AWS calls failed does not
\* throw; it returns the list it had collected before the failing call:
\* the empty list when its first call failed (the not-enabled finding when
\* SecurityHub's first call failed with a not-enabled error), and the
\* findings pushed so far when a later call failed.
C25_FailedCallGivesCollected ==
    (probe.pc = "done" /\ probe.p # "GuardDuty" /\ CallFailed)
        => /\ probe.outcome.ok
           /\ probe.outcome.error = NoError
           /\ probe.outcome.findings =
                 IF probe.aws.kind = "lateThrows"
                 THEN CollectedBefore(probe.p)
                 ELSE IF probe.p = "SecurityHub" /\ probe.aws.error.name \in NotEnabledNames
                      THEN <<AbsenceFinding("SecurityHub")>>
                      ELSE <<>>
           /\ (probe.p = "CloudWatch" => probe.outcome.findings = <<>>)

\* C25 witness: IAM's ListUsers failed after the root-MFA finding had been
\* pushed, and the probe returned that finding.
C25_Witness ==
    /\ probe.pc = "done"
    /\ probe.p = "IAM"
    /\ probe.aws.kind = "lateThrows"
    /\ probe.outcome.ok
    /\ probe.outcome.findings = <<AbsenceFinding("IAM")>>

\* C26: every stored finding and every finding a probe returned has a
\* severity among HIGH, MEDIUM, LOW, and an addFinding with any other
\* severity is rejected and stores nothing.
C26_SeverityEnum ==
    /\ \A f \in db.findings : f.severity \in Severities
    /\ \A i \in 1..Len(probe.outcome.findings) :
          probe.outcome.findings[i].severity \in Severities
    /\ probe.write = "rejected" => (probe.severity \notin Severities /\ db.findings = {})
    /\ probe.write = "stored" =>
          (probe.severity \in Severities
           /\ \E f \in db.findings : f.severity = probe.severity)

\* C26 witness: SecurityHub reported a finding labelled CRITICAL as HIGH,
\* and an addFinding with severity CRITICAL was rejected.
C26_Witness ==
    /\ probe.p = "SecurityHub"
    /\ probe.aws.kind = "reported"
    /\ probe.aws.label = "critical"
    /\ probe.outcome.findings = <<ReportedFinding("SecurityHub", probe.aws)>>
    /\ probe.outcome.findings[1].severity = "HIGH"
    /\ probe.write = "rejected"
    /\ probe.severity = "CRITICAL"


(***************************************************************************)
(* getFindingStats, alone and beside a scan and a deletion.                *)
(***************************************************************************)
\* The rows the WHERE clause of getFindingStats selects; a falsy accountId
\* (undefined or 0) gives no WHERE clause.
StatsWhereIgnoresId(rows, accountId) == rows

StatsWhere(rows, accountId) ==
    IF accountId = 0 THEN rows ELSE {f \in rows : f.accountId = accountId}

\* SELECT severity, COUNT(*) ... GROUP BY severity; a severity without rows
\* has no group, which counts as 0 here.
CountBySeverity(rows) == [s \in Severities |-> Cardinality({f \in rows : f.severity = s})]

\* SELECT service, COUNT(*) ... GROUP BY service.
CountByService(rows) == [p \in ProbeSet |-> Cardinality({f \in rows : f.service = p})]

RECURSIVE SumOver(_, _)
\* The reduce of getFindingStats: the sum of the groups' counts.
SumOver(counts, keys) ==
    IF keys = {} THEN 0
    ELSE LET k == CHOOSE x \in keys : TRUE
         IN  counts[k] + SumOver(counts, keys \ {k})

\* getFindingStats(accountId) is called: both db.all calls are issued, in
\* the same tick, on the shared connection.
StatsEnter(accountId) ==
    /\ stats.pc = "idle"
    /\ stats' = [IdleStats EXCEPT !.pc = "queries", !.accountId = accountId,
                                  !.pending = {"severity", "service"}]
    /\ UNCHANGED <<db, txn, scan, batch, del, probe, store>>

\* One of the two statements runs on the connection; a failing one rejects
\* the Promise.all.
StatsQuery(q, ok) ==
    /\ stats.pc = "queries"
    /\ q \in stats.pending
    /\ LET rows == StatsWhere(db.findings, stats.accountId)
       IN  stats' = IF ~ok THEN [stats EXCEPT !.pc = "failed", !.pending = {}]
                     ELSE IF q = "severity"
                          THEN [stats EXCEPT !.pending = @ \ {q},
                                             !.bySeverity = CountBySeverity(rows)]
                          ELSE [stats EXCEPT !.pending = @ \ {q},
                                             !.byService = CountByService(rows)]
    /\ UNCHANGED <<db, txn, scan, batch, del, probe, store>>

\* Both statements have answered: totalFindings is reduced from bySeverity
\* and the object is returned.
StatsReturn ==
    /\ stats.pc = "queries"
    /\ stats.pending = {}
    /\ stats' = [stats EXCEPT !.pc = "done",
                              !.totalFindings = SumOver(stats.bySeverity, Severities)]
    /\ UNCHANGED <<db, txn, scan, batch, del, probe, store>>

StatsStep(ids) ==
    \/ \E accountId \in ids : StatsEnter(accountId)
    \/ \E q \in {"severity", "service"}, ok \in BOOLEAN : StatsQuery(q, ok)
    \/ StatsReturn

\* The scan has reached its bulk write, or is over.
ScanWrites == scan.pc \in {"run", "finalize", "done", "failed"} /\ scan.writes > 0

\* GET /api/findings/stats beside POST /api/findings/scan/2 and
\* DELETE /api/accounts/2, the probes answering nominally and the
\* deletion's statements succeeding. The two other requests arrive once
\* the scan has reached its bulk write: before that the scan does not
\* touch the findings table, so their steps commute with the scan's.
NextStats ==
    \/ RouteScan(2)
    \/ ScanStep({Nominal}, {Nominal})
    \/ ScanWrites /\ DeleteEnter(2)
    \/ ScanWrites /\ DeleteBegin(TRUE)
    \/ ScanWrites /\ DeleteStatement(TRUE)
    \/ ScanWrites /\ DeleteCommit(TRUE)
    \/ ScanWrites /\ StatsStep({0, 2})

SpecStats == Init /\ [][NextStats]_vars


\* The largest number of findings stored before a statistics request.
MaxStored == 4

\* The probes whose absence findings are stored ahead of a statistics
\* request: one of each severity.
StoredProbes == {"IAM", "CloudWatch", "KMS"}

\* addFinding with the absence finding of a probe for an account, before
\* the statistics are asked for.
addFindingOf(accountId, p) ==
    /\ stats.pc = "idle"
    /\ Cardinality(db.findings) < MaxStored
    /\ db' = InsertFinding(db, accountId, Stamp(<<AbsenceFinding(p)>>, RegionCodes[1])[1])
    /\ UNCHANGED <<txn, scan, batch, del, probe, stats, store>>

\* getFindingStats on a store that nothing else is writing to.
NextStatsAlone ==
    \/ \E accountId \in 1..2, p \in StoredProbes : addFindingOf(accountId, p)
    \/ StatsStep(0..MaxAccounts)

SpecStatsAlone == Init /\ [][NextStatsAlone]_vars

\* C27: a returned getFindingStats(accountId) has totalFindings equal to the
\* number of stored findings of that account, of all accounts when the id
\* is absent, and per severity the number of those findings with that
\* severity.
C27_StatsCountStoredFindings ==
    stats.pc = "done" =>
        LET rows == IF stats.accountId = 0 THEN db.findings
                    ELSE {f \in db.findings : f.accountId = stats.accountId}
        IN  /\ stats.totalFindings = Cardinality(rows)
            /\ \A s \in Severities :
                  stats.bySeverity[s] = Cardinality({f \in rows : f.severity = s})
            /\ \A p \in ProbeSet :
                  stats.byService[p] = Cardinality({f \in rows : f.service = p})

\* C27 witness: account 1 has findings HIGH, HIGH, MEDIUM, account 2 has
\* one more, and the statistics of account 1 are 3 in total, HIGH 2,
\* MEDIUM 1, LOW 0.
C27_Witness ==
    /\ stats.pc = "done"
    /\ stats.accountId = 1
    /\ Cardinality(db.findings) = 4
    /\ \E f \in db.findings : f.accountId = 2
    /\ stats.totalFindings = 3
    /\ stats.bySeverity["HIGH"] = 2
    /\ stats.bySeverity["MEDIUM"] = 1
    /\ stats.bySeverity["LOW"] = 0

\* C29: every returned getFindingStats result has the sum of its
\* per-service counts equal to the sum of its per-severity counts and to
\* totalFindings.
C29_StatsConsistent ==
    stats.pc = "done" =>
        /\ SumOver(stats.bySeverity, Severities) = stats.totalFindings
        /\ SumOver(stats.byService, ProbeSet) = stats.totalFindings


(***************************************************************************)
(* The dashboard's security store.  Each action is followed from one HTTP  *)
(* response to the next request it sends; what runs in between does not    *)
(* wait and is one step.                                                   *)
(***************************************************************************)
\* try { this.loading = true; this.error = null; ... : the head of every
\* asynchronous action of the store.
Begin(st) == [st EXCEPT !.loading = TRUE, !.error = FALSE]

\* catch { this.error = errorMessage } finally { this.loading = false }
\* after a response: ok tells whether the request succeeded.
Finish(st, ok) == [st EXCEPT !.loading = FALSE, !.error = IF ok THEN @ ELSE TRUE]

\* setSelectedAccount(accountId): for a truthy id, fetchFindings and
\* fetchStats are both called and neither is awaited; null is 0 here.
SetSelectedAccount(accountId) ==
    /\ store.fetchFindings = "idle"
    /\ store.fetchStats = "idle"
    /\ store' = IF accountId = 0
                THEN [store EXCEPT !.selectedAccountId = accountId]
                ELSE [Begin(Begin(store)) EXCEPT !.selectedAccountId = accountId,
                                                 !.fetchFindings = "get",
                                                 !.fetchStats = "get"]
    /\ UNCHANGED <<db, txn, scan, batch, del, probe, stats>>

\* GET /findings of a fetchFindings call answers.
FetchFindingsSettle(ok) ==
    /\ store.fetchFindings = "get"
    /\ store' = [Finish(store, ok) EXCEPT !.fetchFindings = "idle"]
    /\ UNCHANGED <<db, txn, scan, batch, del, probe, stats>>

\* GET /findings/stats of a fetchStats call answers.
FetchStatsSettle(ok) ==
    /\ store.fetchStats = "get"
    /\ store' = [Finish(store, ok) EXCEPT !.fetchStats = "idle"]
    /\ UNCHANGED <<db, txn, scan, batch, del, probe, stats>>

\* triggerScan(accountId): POST /findings/scan is sent.
TriggerScan ==
    /\ store.triggerScan = "idle"
    /\ store' = [Begin(store) EXCEPT !.triggerScan = "post"]
    /\ UNCHANGED <<db, txn, scan, batch, del, probe, stats>>

\* The scan request answers: on success fetchFindings is called and
\* awaited, on failure the catch and the finally run.
TriggerScanPosted(ok) ==
    /\ store.triggerScan = "post"
    /\ store' = IF ok THEN [Begin(store) EXCEPT !.triggerScan = "findings"]
                ELSE [Finish(store, FALSE) EXCEPT !.triggerScan = "idle"]
    /\ UNCHANGED <<db, txn, scan, batch, del, probe, stats>>

\* The awaited fetchFindings answers: it catches its own error and clears
\* the flag, then triggerScan goes on to call fetchStats.
TriggerScanFindings(ok) ==
    /\ store.triggerScan = "findings"
    /\ store' = [Begin(Finish(store, ok)) EXCEPT !.triggerScan = "stats"]
    /\ UNCHANGED <<db, txn, scan, batch, del, probe, stats>>

\* The awaited fetchStats answers; its finally and triggerScan's run.
TriggerScanStats(ok) ==
    /\ store.triggerScan = "stats"
    /\ store' = [Finish(Finish(store, ok), TRUE) EXCEPT !.triggerScan = "idle"]
    /\ UNCHANGED <<db, txn, scan, batch, del, probe, stats>>

\* addAccount(account) with n regions: POST /accounts is sent.
AddAccount(n) ==
    /\ store.addAccount = "idle"
    /\ store' = [Begin(store) EXCEPT !.addAccount = "post", !.regions = n, !.left = n]
    /\ UNCHANGED <<db, txn, scan, batch, del, probe, stats>>

\* fetchAccounts is called from addAccount: GET /accounts is sent.
CallFetchAccounts(st) == [Begin(st) EXCEPT !.addAccount = "accounts", !.left = 0]

\* The failure path of addAccount: catch, finally.
AddAccountFail(st) ==
    [Finish(st, FALSE) EXCEPT !.addAccount = "idle", !.regions = 0, !.left = 0]

\* POST /accounts answers: the first region is posted, or with no region
\* fetchAccounts is called.
AddAccountPosted(ok) ==
    /\ store.addAccount = "post"
    /\ store' = IF ~ok THEN AddAccountFail(store)
                ELSE IF store.left > 0 THEN [store EXCEPT !.addAccount = "region"]
                ELSE CallFetchAccounts(store)
    /\ UNCHANGED <<db, txn, scan, batch, del, probe, stats>>

\* POST /accounts/:id/regions answers: the next region, or fetchAccounts.
AddAccountRegionPosted(ok) ==
    /\ store.addAccount = "region"
    /\ store' = IF ~ok THEN AddAccountFail(store)
                ELSE IF store.left > 1 THEN [store EXCEPT !.left = @ - 1]
                ELSE CallFetchAccounts(store)
    /\ UNCHANGED <<db, txn, scan, batch, del, probe, stats>>

\* fetchAccounts and addAccount are over: the finally of each has run;
\* fetchAccounts catches its own error, so addAccount does not see it.
FetchAccountsOver(st, ok) ==
    [Finish(Finish(st, ok), TRUE) EXCEPT !.addAccount = "idle", !.regions = 0, !.left = 0]

\* GET /accounts answers with n accounts: the regions of the first one are
\* asked for.
AccountsListed(ok, n) ==
    /\ store.addAccount = "accounts"
    /\ store' = IF ok /\ n > 0
                THEN [store EXCEPT !.addAccount = "accountRegions", !.accounts = n, !.left = n]
                ELSE IF ok THEN FetchAccountsOver([store EXCEPT !.accounts = n], ok)
                ELSE FetchAccountsOver(store, ok)
    /\ UNCHANGED <<db, txn, scan, batch, del, probe, stats>>

\* GET /accounts/:id/regions answers: the next account, or the end.
AccountRegionsListed(ok) ==
    /\ store.addAccount = "accountRegions"
    /\ store' = IF ok /\ store.left > 1
                THEN [store EXCEPT !.left = @ - 1]
                ELSE FetchAccountsOver(store, ok)
    /\ UNCHANGED <<db, txn, scan, batch, del, probe, stats>>

NextDashboard ==
    \/ \E accountId \in 0..1 : SetSelectedAccount(accountId)
    \/ \E ok \in BOOLEAN : FetchFindingsSettle(ok)
    \/ \E ok \in BOOLEAN : FetchStatsSettle(ok)
    \/ TriggerScan
    \/ \E ok \in BOOLEAN : TriggerScanPosted(ok)
    \/ \E ok \in BOOLEAN : TriggerScanFindings(ok)
    \/ \E ok \in BOOLEAN : TriggerScanStats(ok)
    \/ \E n \in 0..MaxAddedRegions : AddAccount(n)
    \/ \E ok \in BOOLEAN : AddAccountPosted(ok)
    \/ \E ok \in BOOLEAN : AddAccountRegionPosted(ok)
    \/ \E ok \in BOOLEAN, n \in 0..MaxAccounts : AccountsListed(ok, n)
    \/ \E ok \in BOOLEAN : AccountRegionsListed(ok)

SpecDashboard == Init /\ [][NextDashboard]_vars

\* A request of the store is awaiting its response.
InFlight ==
    \/ store.fetchFindings # "idle"
    \/ store.fetchStats # "idle"
    \/ store.triggerScan # "idle"
    \/ store.addAccount # "idle"

\* C30: the loading flag is true exactly when a request of the store is in
\* flight.
C30_LoadingTracksRequests == store.loading <=> InFlight

====
